---- MODULE Spec2Model ----
(***************************************************************************)
(* yt2convert (src/main.py): the download-and-convert worker               *)
(* (DownloadWorker.run), the two external processes it drives (yt-dlp and  *)
(* ffmpeg), the output directory it reads and writes, and the part of the  *)
(* main window that starts, cancels and reaps workers.                     *)
(*                                                                         *)
(* Threads.  The UI thread runs the handlers of ModernMainWindow one at a  *)
(* time.  Every DownloadWorker is a QThread: run() executes on its own     *)
(* thread and interleaves with the UI thread and with the subprocess it    *)
(* reads from.  The signals finished_success and finished are connected to *)
(* slots of the window, which lives on the UI thread, so they are queued   *)
(* and handled later, in emission order (uiQueue).                         *)
(*                                                                         *)
(* The widgets that only display (progress_bar, status_label, log_edit)    *)
(* are not part of the state: what a worker emits is recorded on the       *)
(* worker (fields status, progress, success).  The text of the URL field   *)
(* and the entry of the format dropdown are read by start_download when it *)
(* runs, so they are inputs of that handler.                               *)
(***************************************************************************)
EXTENDS Integers, Sequences, FiniteSets, TLC

\* ---------------------------------------------------------------- bounds
\* Output lines one subprocess prints before it exits.
MaxLines == 2
\* Jobs started in one behaviour.
MaxJobs == 2

\* ------------------------------------------------------------- constants
\* min(80.0, pct * 0.8): the share of the bar reserved for the download.
DownloadCap == 80
\* progress_changed.emit(100.0)
FullProgress == 100
\* "height = int(height_match.group(1)) if height_match else 720"
DefaultHeight == 720

\* The worker threads that can exist side by side in the model.
Slots == {"w1", "w2"}
None == "none"

Formats == {"MP3", "WAV", "MP4"}
\* (variant: the video format taken for an audio format)
AudioFormatsAndVideo == {"MP3", "WAV", "MP4"}
\* "if self.format_choice in ["MP3", "WAV"]"
AudioFormats == {"MP3", "WAV"}
ExitCodes == {0, 1}
\* Percentages a "[download] ...%" line can carry (multiples of 5, so that
\* pct * 0.8 is a whole number); 125 is a value above 100.
Pcts == {50, 125}

\* -------------------------------------------------------------- file names
\* A file of the output directory: the stem as a tuple of characters and the
\* extension.  NoFile is Python's None for downloaded_file.
NoFile == [stem |-> <<>>, ext |-> ""]
File(s, e) == [stem |-> s, ext |-> e]
TitlePlain == <<"A">>
TitleUnsafe == <<"A", "&">>
\* What yt-dlp may write or announce for the one URL of the model.
DlNames == {File(TitlePlain, "webm"), File(TitlePlain, "mp3"),
            File(TitlePlain, "mp4"), File(TitleUnsafe, "mp4")}

AlnumChars == {"A", "y", "t", "v"}
SafeChars == AlnumChars \cup {" ", ".", "-", "_", "(", ")"}

RECURSIVE LStrip(_)
LStrip(s) == IF s # <<>> /\ Head(s) = " " THEN LStrip(Tail(s)) ELSE s
RECURSIVE RStrip(_)
RStrip(s) == IF s # <<>> /\ s[Len(s)] = " "
             THEN RStrip(SubSeq(s, 1, Len(s) - 1)) ELSE s
\* "".join(c for c in base_title if c.isalnum() or c in " .-_()").strip()
SafeBasename(title) ==
    LStrip(RStrip(SelectSeq(title, LAMBDA c : c \in SafeChars)))

StartsWithYt(s) == Len(s) >= 3 /\ SubSeq(s, 1, 3) = <<"y", "t", "_">>
\* base_title: the stem, or video_<timestamp> for a stem that starts "yt_".
BaseTitle(path) ==
    IF StartsWithYt(path.stem) THEN <<"v">> ELSE path.stem

Lower(fmt) == CASE fmt = "MP3" -> "mp3" [] fmt = "WAV" -> "wav" [] OTHER -> "mp4"
OutExt(fmt) == IF fmt \in AudioFormats THEN Lower(fmt) ELSE "mp4"
OutPath(fmt, downloaded) == File(SafeBasename(BaseTitle(downloaded)), OutExt(fmt))

\* The output directory, oldest entry first (st_mtime order).
RemoveFile(fs, n) == SelectSeq(fs, LAMBDA x : x # n)
Touch(fs, n) == Append(RemoveFile(fs, n), n)
Exists(fs, n) == \E i \in 1..Len(fs) : fs[i] = n
Newest(fs) == fs[Len(fs)]

\* The characters of the texts that are searched or compared character by
\* character: labels of the audio tables, labels no table holds, lines of
\* yt-dlp and the markers run() looks for in them.
Chars ==
    ("256 kbps" :>
         <<"2", "5", "6", " ", "k", "b", "p", "s">>) @@
    ("192 kbps" :>
         <<"1", "9", "2", " ", "k", "b", "p", "s">>) @@
    ("128 kbps" :>
         <<"1", "2", "8", " ", "k", "b", "p", "s">>) @@
    ("64 kbps" :>
         <<"6", "4", " ", "k", "b", "p", "s">>) @@
    ("32-bit (48 kHz)" :>
         <<"3", "2", "-", "b", "i", "t", " ", "(", "4", "8", " ", "k", "H",
           "z", ")">>) @@
    ("24-bit (48 kHz)" :>
         <<"2", "4", "-", "b", "i", "t", " ", "(", "4", "8", " ", "k", "H",
           "z", ")">>) @@
    ("16-bit (44.1 kHz)" :>
         <<"1", "6", "-", "b", "i", "t", " ", "(", "4", "4", ".", "1", " ",
           "k", "H", "z", ")">>) @@
    ("[download]  50.0% of 3MiB" :>
         <<"[", "d", "o", "w", "n", "l", "o", "a", "d", "]", " ", " ", "5",
           "0", ".", "0", "%", " ", "o", "f", " ", "3", "M", "i", "B">>) @@
    ("[download] 125% of ~1MiB" :>
         <<"[", "d", "o", "w", "n", "l", "o", "a", "d", "]", " ", "1", "2",
           "5", "%", " ", "o", "f", " ", "~", "1", "M", "i", "B">>) @@
    ("[download] Destination: A.webm" :>
         <<"[", "d", "o", "w", "n", "l", "o", "a", "d", "]", " ", "D", "e",
           "s", "t", "i", "n", "a", "t", "i", "o", "n", ":", " ", "A", ".",
           "w", "e", "b", "m">>) @@
    ("[Merger] Merging formats into \"A.mp4\"" :>
         <<"[", "M", "e", "r", "g", "e", "r", "]", " ", "M", "e", "r", "g",
           "i", "n", "g", " ", "f", "o", "r", "m", "a", "t", "s", " ", "i",
           "n", "t", "o", " ", "\"", "A", ".", "m", "p", "4", "\"">>) @@
    ("[youtube] Extracting URL" :>
         <<"[", "y", "o", "u", "t", "u", "b", "e", "]", " ", "E", "x", "t",
           "r", "a", "c", "t", "i", "n", "g", " ", "U", "R", "L">>) @@
    ("ERROR: unable to download" :>
         <<"E", "R", "R", "O", "R", ":", " ", "u", "n", "a", "b", "l", "e",
           " ", "t", "o", " ", "d", "o", "w", "n", "l", "o", "a", "d">>) @@
    ("[download] % unknown" :>
         <<"[", "d", "o", "w", "n", "l", "o", "a", "d", "]", " ", "%", " ",
           "u", "n", "k", "n", "o", "w", "n">>) @@
    ("  " :>
         <<" ", " ">>) @@
    ("[download]" :>
         <<"[", "d", "o", "w", "n", "l", "o", "a", "d", "]">>) @@
    ("[download] Destination:" :>
         <<"[", "d", "o", "w", "n", "l", "o", "a", "d", "]", " ", "D", "e",
           "s", "t", "i", "n", "a", "t", "i", "o", "n", ":">>) @@
    ("Merging formats into" :>
         <<"M", "e", "r", "g", "i", "n", "g", " ", "f", "o", "r", "m", "a",
           "t", "s", " ", "i", "n", "t", "o">>) @@
    ("4320p (8K)" :>
         <<"4", "3", "2", "0", "p", " ", "(", "8", "K", ")">>) @@
    ("High" :>
         <<"H", "i", "g", "h">>)

\* ------------------------------------------------- the format expression
\* The entries of the quality dropdown, as tuples of characters (run()
\* searches them with a regular expression).
BestAvailable == <<"B", "e", "s", "t", " ", "A", "v", "a", "i", "l", "a", "b", "l", "e">>
Res2160 == <<"2", "1", "6", "0", "p", " ", "(", "4", "K", ")">>
Res1440 == <<"1", "4", "4", "0", "p", " ", "(", "2", "K", ")">>
Res1080 == <<"1", "0", "8", "0", "p">>
Res720 == <<"7", "2", "0", "p">>
Res480 == <<"4", "8", "0", "p">>
Res360 == <<"3", "6", "0", "p">>
Res240 == <<"2", "4", "0", "p">>
Res144 == <<"1", "4", "4", "p">>
Kbps320 == <<"3", "2", "0", " ", "k", "b", "p", "s">>

\* AUDIO_FORMATS: for each audio format the settings of its quality labels.
AUDIO_FORMATS ==
    [f \in {"MP3", "WAV"} |->
        IF f = "MP3"
        THEN (Kbps320 :> [bitrate |-> "320k", codec |-> "libmp3lame"]) @@
             (Chars["256 kbps"] :> [bitrate |-> "256k", codec |-> "libmp3lame"]) @@
             (Chars["192 kbps"] :> [bitrate |-> "192k", codec |-> "libmp3lame"]) @@
             (Chars["128 kbps"] :> [bitrate |-> "128k", codec |-> "libmp3lame"]) @@
             (Chars["64 kbps"] :> [bitrate |-> "64k", codec |-> "libmp3lame"])
        ELSE (Chars["32-bit (48 kHz)"] :> [codec |-> "pcm_f32le", sample_rate |-> "48000"]) @@
             (Chars["24-bit (48 kHz)"] :> [codec |-> "pcm_s24le", sample_rate |-> "48000"]) @@
             (Chars["16-bit (44.1 kHz)"] :> [codec |-> "pcm_s16le", sample_rate |-> "44100"])]

\* The keys of RESOLUTION_CODEC_MATRIX.
ResolutionLabels ==
    {Res2160, Res1440, Res1080, Res720, Res480, Res360, Res240, Res144}

\* CODEC_RESOLUTION_MATRIX: for each codec the height of its resolutions.
CodecResolutionMatrix ==
    [c \in {"H.264 (AVC)", "VP9", "AV1"} |->
        CASE c = "H.264 (AVC)" ->
                (Res1080 :> 1080) @@ (Res720 :> 720) @@ (Res480 :> 480) @@
                (Res360 :> 360) @@ (Res240 :> 240) @@ (Res144 :> 144)
          [] c = "VP9" ->
                (Res2160 :> 2160) @@ (Res1440 :> 1440) @@ (Res1080 :> 1080) @@
                (Res720 :> 720) @@ (Res480 :> 480) @@ (Res360 :> 360)
          [] OTHER ->
                (Res2160 :> 2160) @@ (Res1440 :> 1440) @@ (Res1080 :> 1080) @@
                (Res720 :> 720)]
\* The order in which CODEC_RESOLUTION_MATRIX.items() yields the codecs.
CodecOrder == <<"H.264 (AVC)", "VP9", "AV1">>

\* RESOLUTION_CODEC_MATRIX: the codecs offered for each resolution.
ResolutionCodecMatrix ==
    [r \in ResolutionLabels |->
        CASE r \in {Res2160, Res1440} -> {"VP9", "AV1"}
          [] r \in {Res1080, Res720} -> {"H.264 (AVC)", "VP9"}
          [] OTHER -> {"H.264 (AVC)"}]

\* VIDEO_CODEC_FORMATS[codec]["format_selector"]
FormatSelector ==
    [c \in {"H.264 (AVC)", "VP9", "AV1"} |->
        CASE c = "H.264 (AVC)" -> "avc1" [] c = "VP9" -> "vp9" [] OTHER -> "av01"]

\* re.search(r'(\d+)p', resolution): the leftmost run of digits that a "p"
\* follows, as a number; NoMatch when there is none.
DigitChars == <<"0", "1", "2", "3", "4", "5", "6", "7", "8", "9">>
IsDigit(c) == \E d \in 1..Len(DigitChars) : DigitChars[d] = c
DigitValue(c) == (CHOOSE d \in 1..Len(DigitChars) : DigitChars[d] = c) - 1
RECURSIVE RunEnd(_, _)
RunEnd(s, i) == IF i < Len(s) /\ IsDigit(s[i + 1]) THEN RunEnd(s, i + 1) ELSE i
RECURSIVE IntOf(_)
IntOf(ds) == IF ds = <<>> THEN 0
             ELSE IntOf(SubSeq(ds, 1, Len(ds) - 1)) * 10 + DigitValue(ds[Len(ds)])
MatchStarts(s) ==
    {i \in 1..Len(s) :
        /\ IsDigit(s[i])
        /\ RunEnd(s, i) < Len(s)
        /\ s[RunEnd(s, i) + 1] = "p"}
NoMatch == -1
HeightMatch(s) ==
    IF MatchStarts(s) = {} THEN NoMatch
    ELSE LET i == CHOOSE k \in MatchStarts(s) : \A j \in MatchStarts(s) : k <= j
         IN IntOf(SubSeq(s, i, RunEnd(s, i)))

\* The height of a resolution of RESOLUTION_CODEC_MATRIX: that of the first
\* codec of CODEC_RESOLUTION_MATRIX that has the resolution, else the
\* number before "p" in the label, else DefaultHeight.
HeightOf(resolution) ==
    LET having == {i \in 1..Len(CodecOrder) :
                      resolution \in DOMAIN CodecResolutionMatrix[CodecOrder[i]]}
    IN IF having # {}
       THEN CodecResolutionMatrix[
                CodecOrder[CHOOSE i \in having : \A j \in having : i <= j]][resolution]
       ELSE IF HeightMatch(resolution) # NoMatch THEN HeightMatch(resolution)
       ELSE DefaultHeight

\* f"height<={height}" and f"vcodec^={codec_selector}"
HeightPart(h) == "height<=" \o ToString(h)
CodecPart(sel) == "vcodec^=" \o sel

\* (variant: the codec constraint is put first)
FormatPartsCodecFirst(resolution, codec) ==
    (IF codec # "Best Available" /\ codec \in DOMAIN FormatSelector
     THEN <<CodecPart(FormatSelector[codec])>> ELSE <<>>)
    \o
    (IF resolution # BestAvailable /\ resolution \in ResolutionLabels
     THEN <<HeightPart(HeightOf(resolution))>> ELSE <<>>)
\* (variant: every label that is not "Best Available" gets a height)
FormatPartsAnyLabel(resolution, codec) ==
    (IF resolution # BestAvailable
     THEN <<HeightPart(HeightOf(resolution))>> ELSE <<>>)
    \o
    (IF codec # "Best Available" /\ codec \in DOMAIN FormatSelector
     THEN <<CodecPart(FormatSelector[codec])>> ELSE <<>>)
\* format_parts: the height constraint for a resolution of the table, then
\* the codec constraint for a codec of VIDEO_CODEC_FORMATS.
FormatParts(resolution, codec) ==
    (IF resolution # BestAvailable /\ resolution \in ResolutionLabels
     THEN <<HeightPart(HeightOf(resolution))>> ELSE <<>>)
    \o
    (IF codec # "Best Available" /\ codec \in DOMAIN FormatSelector
     THEN <<CodecPart(FormatSelector[codec])>> ELSE <<>>)

\* "[" + "][".join(format_parts) + "]", piece by piece.
RECURSIVE Joined(_)
Joined(parts) ==
    IF Len(parts) = 1 THEN parts
    ELSE <<Head(parts), "][">> \o Joined(Tail(parts))
Constraints(parts) == <<"[">> \o Joined(parts) \o <<"]">>

\* (variant: the constrained alternatives only)
FormatExpressionNoFallback(format_choice, quality_choice, codec_choice) ==
    IF format_choice \in {"MP3", "WAV"} THEN <<"bestaudio/best">>
    ELSE LET resolution == quality_choice
             codec == IF codec_choice = "" THEN "Best Available" ELSE codec_choice
             parts == FormatParts(resolution, codec)
         IN IF resolution = BestAvailable /\ codec = "Best Available"
            THEN <<"bestvideo+bestaudio/best">>
            ELSE IF parts = <<>> THEN <<"bestvideo+bestaudio/best">>
            ELSE <<"bestvideo">> \o Constraints(parts)
                 \o <<IF codec = "H.264 (AVC)" THEN "+bestaudio[acodec^=mp4a]/best"
                      ELSE "+bestaudio/best">>
                 \o Constraints(parts)
\* The argument of "-f" on the command line of yt-dlp, as the sequence of
\* its pieces.  codec_choice is None for an audio job and the text of the
\* codec dropdown for MP4 ("" stands for both empty values).
FormatExpression(format_choice, quality_choice, codec_choice) ==
    IF format_choice \in {"MP3", "WAV"} THEN <<"bestaudio/best">>
    ELSE LET resolution == quality_choice
             codec == IF codec_choice = "" THEN "Best Available" ELSE codec_choice
             parts == FormatParts(resolution, codec)
         IN IF resolution = BestAvailable /\ codec = "Best Available"
            THEN <<"bestvideo+bestaudio/best">>
            ELSE IF parts = <<>> THEN <<"bestvideo+bestaudio/best">>
            ELSE <<"bestvideo">> \o Constraints(parts)
                 \o <<IF codec = "H.264 (AVC)" THEN "+bestaudio[acodec^=mp4a]/best"
                      ELSE "+bestaudio/best">>
                 \o Constraints(parts)
                 \o <<"/bestvideo+bestaudio/best">>

\* (variant: the flag passed for every format)
MergeOutputFormatAlways(format_choice) == <<"--merge-output-format", "mp4">>
\* ytdlp_cmd.extend(["--merge-output-format", "mp4"]), in the video branch.
MergeOutputFormat(format_choice) ==
    IF format_choice \in {"MP3", "WAV"} THEN <<>>
    ELSE <<"--merge-output-format", "mp4">>

\* What a failed lookup in AUDIO_FORMATS leaves in place of the arguments.
KeyError == <<"KeyError">>
\* (variant: the sample rate passed as a bitrate)
FfArgsRateAsBitrate(format_choice, quality_choice) ==
    IF quality_choice \notin DOMAIN AUDIO_FORMATS[format_choice] THEN KeyError
    ELSE LET format_settings == AUDIO_FORMATS[format_choice][quality_choice]
         IN <<"ffmpeg", "-y", "-i", "downloaded_path", "-vn", "-map", "0:a",
              "-c:a", format_settings.codec,
              "-b:a", IF Lower(format_choice) = "mp3" THEN format_settings.bitrate
                      ELSE format_settings.sample_rate,
              "." \o Lower(format_choice)>>
\* ff_args of an audio job: AUDIO_FORMATS[format][quality], then the list of
\* the mp3 branch or of the other; the two paths are kept as the name
\* "downloaded_path" and the extension of out_path.
FfArgs(format_choice, quality_choice) ==
    IF quality_choice \notin DOMAIN AUDIO_FORMATS[format_choice] THEN KeyError
    ELSE LET format_settings == AUDIO_FORMATS[format_choice][quality_choice]
         IN IF Lower(format_choice) = "mp3"
            THEN <<"ffmpeg", "-y", "-i", "downloaded_path", "-vn", "-map", "0:a",
                   "-c:a", format_settings.codec,
                   "-b:a", format_settings.bitrate,
                   "." \o Lower(format_choice)>>
            ELSE <<"ffmpeg", "-y", "-i", "downloaded_path", "-vn", "-map", "0:a",
                   "-c:a", format_settings.codec,
                   "-ar", format_settings.sample_rate,
                   "." \o Lower(format_choice)>>

\* The requests the format expression is computed for.
QualityLabels ==
    ResolutionLabels \cup {BestAvailable, Chars["4320p (8K)"], Chars["High"]}
    \cup {Kbps320, Chars["256 kbps"], Chars["192 kbps"], Chars["128 kbps"],
          Chars["64 kbps"], Chars["32-bit (48 kHz)"], Chars["24-bit (48 kHz)"],
          Chars["16-bit (44.1 kHz)"]}
CodecLabels == {"", "Best Available", "Auto (Best Available)", "H.264 (AVC)",
                "VP9", "AV1", "HEVC"}
Requests == [format : Formats, quality : QualityLabels, codec : CodecLabels]

\* ---------------------------------------------------------- the dropdowns
\* The keys of the tables in the order the dicts yield them.
AudioQualities ==
    [f \in {"MP3", "WAV"} |->
        IF f = "MP3" THEN <<Kbps320, Chars["256 kbps"], Chars["192 kbps"],
                            Chars["128 kbps"], Chars["64 kbps"]>>
        ELSE <<Chars["32-bit (48 kHz)"], Chars["24-bit (48 kHz)"], Chars["16-bit (44.1 kHz)"]>>]
ResolutionOrder ==
    <<Res2160, Res1440, Res1080, Res720, Res480, Res360, Res240, Res144>>
\* The resolutions of each codec in CODEC_RESOLUTION_MATRIX, in order, and
\* those marked "common".
CodecResolutions ==
    [c \in {"H.264 (AVC)", "VP9", "AV1"} |->
        CASE c = "H.264 (AVC)" -> <<Res1080, Res720, Res480, Res360, Res240, Res144>>
          [] c = "VP9" -> <<Res2160, Res1440, Res1080, Res720, Res480, Res360>>
          [] OTHER -> <<Res2160, Res1440, Res1080, Res720>>]
CommonResolutions ==
    [c \in {"H.264 (AVC)", "VP9", "AV1"} |->
        CASE c = "H.264 (AVC)" -> {Res1080, Res720, Res480, Res360}
          [] c = "VP9" -> {Res2160, Res1440, Res1080, Res720}
          [] OTHER -> {Res2160}]
\* The lists of RESOLUTION_CODEC_MATRIX.
ResolutionCodecs ==
    [r \in ResolutionLabels |->
        CASE r \in {Res2160, Res1440} -> <<"VP9", "AV1">>
          [] r \in {Res1080, Res720} -> <<"H.264 (AVC)", "VP9">>
          [] OTHER -> <<"H.264 (AVC)">>]
AutoCodec == "Auto (Best Available)"

InSeq(x, s) == \E i \in 1..Len(s) : s[i] = x

\* ModernMainWindow._get_available_resolutions_for_codec
get_available_resolutions_for_codec(codec) ==
    IF codec = AutoCodec THEN <<BestAvailable>> \o ResolutionOrder
    ELSE IF codec \in DOMAIN CodecResolutionMatrix
    THEN <<BestAvailable>>
         \o SelectSeq(CodecResolutions[codec],
                      LAMBDA res : res \in CommonResolutions[codec])
         \o SelectSeq(CodecResolutions[codec],
                      LAMBDA res : res \notin CommonResolutions[codec])
    ELSE <<BestAvailable>>

\* ModernMainWindow._get_available_codecs_for_resolution
get_available_codecs_for_resolution(resolution) ==
    IF resolution = BestAvailable THEN <<AutoCodec>> \o CodecOrder
    ELSE IF resolution \in DOMAIN ResolutionCodecs
    THEN <<AutoCodec>> \o ResolutionCodecs[resolution]
    ELSE <<AutoCodec>>

\* (variant: the entry is kept whether the new list has it or not)
KeptAlways(items, current) == current
\* "if current in items: setCurrentText(current) else: setCurrentIndex(0)":
\* the entry the dropdown shows afterwards.
Kept(items, current) == IF InSeq(current, items) THEN current ELSE items[1]

\* (variant: the list of codecs is left as it is)
on_quality_changed_keeping_codecs(d) == d
\* ModernMainWindow._on_quality_changed: in MP4 mode the codec dropdown is
\* refilled for the resolution shown, its signals blocked.
on_quality_changed(d) ==
    IF d.format # "MP4" THEN d
    ELSE LET available_codecs == get_available_codecs_for_resolution(d.quality)
         IN [d EXCEPT !.codec_items = available_codecs,
                      !.codec = Kept(available_codecs, d.codec)]

\* ModernMainWindow._on_codec_changed: in MP4 mode the quality dropdown is
\* refilled for the codec shown, its signals blocked.
on_codec_changed(d) ==
    IF d.format # "MP4" THEN d
    ELSE LET available_resolutions == get_available_resolutions_for_codec(d.codec)
         IN [d EXCEPT !.quality_items = available_resolutions,
                      !.quality = Kept(available_resolutions, d.quality)]

\* The quality dropdown with its signals not blocked: currentTextChanged
\* is emitted, and _on_quality_changed runs, each time the text it shows
\* changes: clear() on a filled box, addItems() on an empty one (the first
\* item becomes the current one), setCurrentText()/setCurrentIndex().
QualityClear(d) ==
    IF d.quality = <<>> THEN [d EXCEPT !.quality_items = <<>>]
    ELSE on_quality_changed([d EXCEPT !.quality_items = <<>>, !.quality = <<>>])
QualityAddItems(d, items) ==
    on_quality_changed([d EXCEPT !.quality_items = items, !.quality = items[1]])
QualitySetCurrent(d, text) ==
    IF text = d.quality THEN d
    ELSE on_quality_changed([d EXCEPT !.quality = text])

\* ModernMainWindow._update_format_options, the slot of the format
\* dropdown: the quality dropdown is refilled with its signals live.
update_format_options(d) ==
    LET current_quality == d.quality
        current_codec == d.codec
        cleared == QualityClear(d)
    IN IF d.format \in DOMAIN AUDIO_FORMATS
       THEN LET qualities == AudioQualities[d.format]
            IN [QualitySetCurrent(QualityAddItems(cleared, qualities),
                                  Kept(qualities, current_quality))
                   EXCEPT !.codec_visible = FALSE]
       ELSE LET available_resolutions ==
                    IF current_codec # "" /\ InSeq(current_codec, CodecOrder \o <<AutoCodec>>)
                    THEN get_available_resolutions_for_codec(current_codec)
                    ELSE <<BestAvailable>> \o ResolutionOrder
            IN QualitySetCurrent(
                   QualityAddItems([cleared EXCEPT !.codec_visible = TRUE],
                                   available_resolutions),
                   Kept(available_resolutions, current_quality))

\* The dropdowns when _build_ui has run: MP3, its qualities (filled by the
\* call of _update_format_options before the two slots are connected), and
\* the hidden codec dropdown with all its entries.
InitialDropdowns ==
    [format |-> "MP3",
     quality_items |-> AudioQualities["MP3"],
     quality |-> Kbps320,
     codec_items |-> <<AutoCodec>> \o CodecOrder,
     codec |-> AutoCodec,
     codec_visible |-> FALSE]

\* ------------------------------------------------------------------ state
VARIABLES
    app,            \* "running", or "aborted" once the process has died
    start_enabled,  \* start_button.isEnabled()
    cancel_enabled, \* cancel_button.isEnabled()
    worker,         \* self.worker: a slot, or None
    history,        \* self.history, and with it history.json
    settings,       \* the dict self.settings refers to
    uiQueue,        \* queued signals for the UI thread
    wk,             \* the DownloadWorker of each slot
    files,          \* the output directory
    ffmpegPresent,  \* ffmpeg.exe exists
    ytdlpPresent,   \* yt-dlp.exe exists
    jobs,           \* jobs started so far
    request,        \* format, quality and codec of a request
    format_expr,    \* the format expression built for it (<<>>: not yet)
    merge_args,     \* the merge flag that follows it on the command line
    ff_args,        \* the arguments of ffmpeg built for it (audio)
    log_lines,      \* log_line emissions of the read loop, where lines have text
    dropdowns       \* the format, quality and codec dropdowns

vars == <<app, start_enabled, cancel_enabled, worker, history, settings,
          uiQueue, wk, files, ffmpegPresent, ytdlpPresent, jobs, request,
          format_expr, merge_args, ff_args, log_lines, dropdowns>>

uiVars == <<start_enabled, cancel_enabled, worker, history, settings>>
\* What no step of the window or of a worker changes.
envVars == <<ffmpegPresent, ytdlpPresent, request, format_expr, merge_args,
             ff_args, log_lines, dropdowns>>

\* ------------------------------------------------------- status messages
\* status_message.emit(kind, message); of a formatted message (an exit code,
\* an exception text, a path) the fixed part is kept.
Status(k, m) == [kind |-> k, msg |-> m]
StartingStatus == Status("info", "Starting download...")
ConvertingStatus == Status("info", "Converting audio...")
FfmpegMissingStatus ==
    Status("error",
           "FFmpeg not found. Make sure ffmpeg is bundled with the application.")
YtdlpMissingStatus ==
    Status("error",
           "yt-dlp.exe not found. Please wait for automatic download or check settings.")
\* (variant: the cancellation reported with the text of a failure)
CancelledStatusAsFailure == Status("error", "Download failed")
CancelledStatus == Status("error", "Operation cancelled by user.")
YtdlpFailedStatus == Status("error", "yt-dlp failed with exit code")
NotLocatedStatus == Status("error", "Could not locate downloaded file.")
DownloadFailedStatus == Status("error", "Download failed")
FfmpegFailedStatus == Status("error", "ffmpeg failed with exit code")
ConversionErrorStatus == Status("error", "Conversion error")
SavedStatus == Status("success", "Saved")

\* --------------------------------------------------------------- settings
\* The keys of the settings a job reads, directly or through the window.
Folders == {"converted", "elsewhere"}
DefaultSettings ==
    [download_folder |-> "converted", use_speed_optimizations |-> TRUE]
SettingsValues ==
    [download_folder : Folders, use_speed_optimizations : BOOLEAN]

\* ------------------------------------------------------------ the worker
\* DownloadWorker.__init__, and the fields run() fills in.
NewWorker(fmt) ==
    [pc |-> "start",            \* where run() is
     format_choice |-> fmt,
     outdir |-> settings.download_folder,   \* a str, copied at creation
     use_speed |-> "unread",    \* settings.get("use_speed_optimizations") in run()
     stop |-> FALSE,            \* _stop_requested
     stopAt |-> "none",         \* history: what ran when request_stop() came
     dlProc |-> "none", dlRet |-> 0,
     ffProc |-> "none", ffRet |-> 0,
     dlLaunches |-> 0,          \* subprocess.Popen(ytdlp_cmd, ...) calls
     ffLaunches |-> 0,          \* subprocess.Popen(ff_args, ...) calls
     lines |-> 0,               \* progress and destination lines read
     downloaded_file |-> NoFile,
     out_path |-> NoFile,
     written |-> NoFile,        \* history: the file yt-dlp wrote for this job
     status |-> <<>>,           \* status_message emissions
     pcts |-> <<>>,             \* percentages parsed from download lines
     progress |-> <<>>,         \* progress_changed emissions
     success |-> FALSE,         \* finished_success emitted
     raised |-> FALSE,          \* run() left by an uncaught exception
     fx |-> {}]                 \* side effects run() has had

\* A slot with no thread: none was started, or the thread has finished.
IdleWorker == [NewWorker("MP3") EXCEPT !.pc = "idle", !.outdir = "converted"]

\* "self.settings = settings or {}": the worker keeps a reference to the dict
\* of the window (never empty), not a copy of it.
WorkerSettings(w) == settings
\* "if self.settings.get("use_speed_optimizations", True)" in run()
SpeedRead(w) ==
    IF WorkerSettings(w).use_speed_optimizations THEN "on" ELSE "off"

\* isRunning(): the thread has been started and has not finished.
Running(w) == wk[w].pc # "idle"
Active == {w \in Slots : Running(w)}
\* run() has returned.
Ended(w) == wk[w].pc = "ended"

Emit(r, st) == [r EXCEPT !.status = Append(@, st)]
\* emit an error status and return
Fail(r, st) == [Emit(r, st) EXCEPT !.pc = "ended"]

Init ==
    /\ app = "running"
    /\ start_enabled = TRUE
    /\ cancel_enabled = FALSE
    /\ worker = None
    /\ history = <<>>
    /\ settings = DefaultSettings
    /\ uiQueue = <<>>
    /\ wk = [w \in Slots |-> IdleWorker]
    /\ files \in {<<>>, <<File(TitlePlain, "mp3")>>}
    /\ ffmpegPresent \in BOOLEAN
    /\ ytdlpPresent \in BOOLEAN
    /\ jobs = 0
    /\ request = [format |-> "MP3", quality |-> Kbps320, codec |-> ""]
    /\ format_expr = <<>>
    /\ merge_args = <<>>
    /\ ff_args = <<>>
    /\ log_lines = <<>>
    /\ dropdowns = InitialDropdowns

\* ------------------------------------------------------------ UI thread
SlotOrder == <<"w1", "w2">>
FreeIdx == {i \in 1..Len(SlotOrder) : ~Running(SlotOrder[i])}
\* The thread object a new DownloadWorker gets.
NextSlot == SlotOrder[CHOOSE i \in FreeIdx : \A j \in FreeIdx : i <= j]

\* What ran when the stop flag was first set (kept for the claims only).
StopPhase(r) ==
    CASE r.stop -> r.stopAt
      [] r.pc = "ended" -> "after"
      [] r.dlProc = "none" -> "before"
      [] r.dlProc = "running" -> "downloading"
      [] r.ffProc = "running" -> "converting"
      [] OTHER -> "between"

\* DownloadWorker.request_stop; on a thread that has finished the flag is
\* read by nobody.
request_stop(w) ==
    wk' = IF Running(w)
          THEN [wk EXCEPT ![w].stopAt = StopPhase(wk[w]), ![w].stop = TRUE]
          ELSE wk

\* ModernMainWindow.start_download: returns early on an empty URL; nothing
\* in it looks at self.worker or at the state of the buttons.
start_download(url, format_choice) ==
    /\ url # ""
    /\ jobs < MaxJobs
    /\ FreeIdx # {}
    /\ start_enabled' = FALSE
    /\ cancel_enabled' = TRUE
    /\ worker' = NextSlot
    /\ wk' = [wk EXCEPT ![NextSlot] = NewWorker(format_choice)]
    /\ jobs' = jobs + 1
    /\ UNCHANGED <<app, history, settings, uiQueue, files, envVars>>

Urls == {"", "u"}

\* start_button.clicked: a disabled button emits no click.
ClickDownload ==
    /\ app = "running"
    /\ start_enabled
    /\ \E url \in Urls, f \in Formats : start_download(url, f)

\* url_input.returnPressed: the line edit is never disabled.
ReturnPressed ==
    /\ app = "running"
    /\ \E url \in Urls, f \in Formats : start_download(url, f)

\* ModernMainWindow.cancel_current
cancel_current ==
    /\ worker # None
    /\ request_stop(worker)
    /\ UNCHANGED <<app, uiVars, uiQueue, files, envVars, jobs>>

\* cancel_button.clicked
ClickCancel ==
    /\ app = "running"
    /\ cancel_enabled
    /\ cancel_current

\* save_history followed by _load_history_list, which starts with
\* "self.history = load_history()".  Every handler that changes self.history
\* ends with the two, so between handlers the list and history.json hold the
\* same entries and one variable stands for both.  save_history catches its
\* exceptions: the file is written, or left as it was (open() failed), or
\* left cut short (the write failed), and a file that does not parse loads
\* as [].
SaveOutcomes == {"written", "unchanged", "truncated"}
SavedAndReloaded(old, new, outcome) ==
    CASE outcome = "written" -> new
      [] outcome = "unchanged" -> old
      [] OTHER -> <<>>

\* The entry _on_download_finish builds from the dict of finished_success;
\* datetime.now() to the second is a clock that does not run backwards, for
\* which the number of jobs started so far stands.
Entry(info, ts) ==
    [outfile |-> info.outfile, title |-> info.title, format |-> info.format,
     timestamp |-> ts]

\* (variant: no entry is dropped)
NewHistoryNoDedupe(h, entry) == <<entry>> \o h
\* (variant: only the new entry is kept)
NewHistoryOnlyLatest(h, entry) == <<entry>>
\* "[entry] + [e for e in self.history if e.get("outfile") != outfile]"
NewHistory(h, entry) ==
    <<entry>> \o SelectSeq(h, LAMBDA e : e.outfile # entry.outfile)

\* ModernMainWindow._on_download_finish
on_download_finish(info) ==
    /\ \E outcome \in SaveOutcomes :
         history' = SavedAndReloaded(history,
                                     NewHistory(history, Entry(info, jobs)),
                                     outcome)
    /\ UNCHANGED <<start_enabled, cancel_enabled, worker, settings>>

\* ModernMainWindow._on_worker_finished
on_worker_finished ==
    /\ start_enabled' = TRUE
    /\ cancel_enabled' = FALSE
    /\ worker' = None
    /\ UNCHANGED <<history, settings>>

\* The event loop hands the oldest queued signal to its slot.
DeliverSignal ==
    /\ app = "running"
    /\ uiQueue # <<>>
    /\ uiQueue' = Tail(uiQueue)
    /\ IF Head(uiQueue).type = "finished_success"
       THEN on_download_finish(Head(uiQueue).info)
       ELSE on_worker_finished
    /\ UNCHANGED <<app, wk, files, envVars, jobs>>

\* "[e for e in self.history if e != entry]"
Without(h, entry) == SelectSeq(h, LAMBDA e : e # entry)

\* ModernMainWindow._remove_from_history, from the context menu of an item
\* of the history list.
remove_from_history ==
    /\ app = "running"
    /\ \E i \in 1..Len(history), outcome \in SaveOutcomes :
         history' = SavedAndReloaded(history, Without(history, history[i]), outcome)
    /\ UNCHANGED <<app, start_enabled, cancel_enabled, worker, settings, uiQueue,
                   wk, files, envVars, jobs>>

\* ModernMainWindow._delete_file_and_remove_history: the question, the
\* unlink of the file if it exists, then the removal of the entry; an
\* exception of unlink() ends the handler with an error status.
delete_file_and_remove_history ==
    /\ app = "running"
    /\ \E i \in 1..Len(history), yes \in BOOLEAN, unlinkOk \in BOOLEAN,
          outcome \in SaveOutcomes :
         IF ~yes \/ (Exists(files, history[i].outfile) /\ ~unlinkOk)
         THEN UNCHANGED <<history, files>>
         ELSE /\ files' = RemoveFile(files, history[i].outfile)
              /\ history' = SavedAndReloaded(history,
                                             Without(history, history[i]), outcome)
    /\ UNCHANGED <<app, start_enabled, cancel_enabled, worker, settings, uiQueue,
                   wk, envVars, jobs>>

\* ModernMainWindow._clear_history: the question, then the empty list.
clear_history ==
    /\ app = "running"
    /\ \E yes \in BOOLEAN, outcome \in SaveOutcomes :
         history' = IF yes THEN SavedAndReloaded(history, <<>>, outcome)
                    ELSE history
    /\ UNCHANGED <<app, start_enabled, cancel_enabled, worker, settings, uiQueue,
                   wk, files, envVars, jobs>>

\* open_settings_dialog.do_save: the keys of the dict are assigned in place.
do_save ==
    /\ app = "running"
    /\ \E s \in SettingsValues : settings' = s
    /\ UNCHANGED <<app, start_enabled, cancel_enabled, worker, history, uiQueue,
                   wk, files, envVars, jobs>>

\* ------------------------------------------------- DownloadWorker.run()
Min(a, b) == IF a <= b THEN a ELSE b
\* (variant: no cap)
DownloadProgressUncapped(pct) == (pct * 4) \div 5
\* min(80.0, pct * 0.8)
DownloadProgress(pct) == Min(DownloadCap, (pct * 4) \div 5)

\* One line of yt-dlp's output, as run() classifies it.
ProgressLine(p) == [kind |-> "progress", pct |-> p, path |-> NoFile]
DestLine(f) == [kind |-> "dest", pct |-> 0, path |-> f]
DlLines == {ProgressLine(p) : p \in Pcts} \cup {DestLine(f) : f \in DlNames}

\* The body of the read loop for one non-empty line.
HandleLine(r, line) ==
    LET r1 == IF line.kind = "progress"
              THEN [r EXCEPT !.pcts = Append(@, line.pct),
                             !.progress = Append(@, DownloadProgress(line.pct))]
              ELSE r
    IN IF line.kind = "dest" THEN [r1 EXCEPT !.downloaded_file = line.path]
       ELSE r1

\* ------------------------------------------------- the lines of yt-dlp
\* Lines of the output of yt-dlp as text (tuples of characters).
LineTexts ==
    {Chars["[download]  50.0% of 3MiB"], Chars["[download] 125% of ~1MiB"],
     Chars["[download] Destination: A.webm"],
     Chars["[Merger] Merging formats into \"A.mp4\""],
     Chars["[youtube] Extracting URL"], Chars["ERROR: unable to download"],
     Chars["[download] % unknown"], Chars["  "]}

\* "sub in line"
Contains(line, sub) ==
    \E i \in 1..(Len(line) - Len(sub) + 1) :
        SubSeq(line, i, i + Len(sub) - 1) = sub

\* line.strip()
Strip(s) == LStrip(RStrip(s))

\* re.search(r'(\d+\.?\d*)%', line): the starts of a match, digits, then
\* possibly a point and more digits, then "%".
PctEnd(s, i) ==
    LET e == RunEnd(s, i)
    IN IF e < Len(s) /\ s[e + 1] = "." THEN RunEnd(s, e + 1) ELSE e
PctStarts(s) ==
    {i \in 1..Len(s) :
        /\ IsDigit(s[i])
        /\ \/ RunEnd(s, i) < Len(s) /\ s[RunEnd(s, i) + 1] = "%"
           \/ PctEnd(s, i) < Len(s) /\ s[PctEnd(s, i) + 1] = "%"}
\* float(match.group(1)) of the leftmost match, for the numbers of
\* LineTexts (whole numbers, the digits after the point being zeros);
\* NoMatch when nothing matches.
PctMatch(s) ==
    IF PctStarts(s) = {} THEN NoMatch
    ELSE LET i == CHOOSE k \in PctStarts(s) : \A j \in PctStarts(s) : k <= j
         IN IntOf(SubSeq(s, i, RunEnd(s, i)))

\* line.split(":", 1): what follows the first colon, <<>> standing for a
\* line without one (len(parts) = 1).
HasColon(s) == \E i \in 1..Len(s) : s[i] = ":"
AfterColon(s) ==
    LET i == CHOOSE k \in 1..Len(s) :
                 s[k] = ":" /\ \A j \in 1..(k - 1) : s[j] # ":"
    IN SubSeq(s, i + 1, Len(s))
\* .strip('"')
RECURSIVE StripQuotes(_)
StripQuotes(s) ==
    IF s # <<>> /\ Head(s) = "\"" THEN StripQuotes(Tail(s))
    ELSE IF s # <<>> /\ s[Len(s)] = "\"" THEN StripQuotes(SubSeq(s, 1, Len(s) - 1))
    ELSE s
\* The file a path names: what precedes the last point and what follows.
ExtNames ==
    (<<"w", "e", "b", "m">> :> "webm") @@ (<<"m", "p", "3">> :> "mp3") @@
    (<<"m", "p", "4">> :> "mp4")
PathFile(path) ==
    LET dots == {i \in 1..Len(path) : path[i] = "."}
        d == CHOOSE k \in dots : \A j \in dots : j <= k
    IN File(SubSeq(path, 1, d - 1), ExtNames[SubSeq(path, d + 1, Len(path))])

\* (variant: a download line without a number taken for 0%)
HandleTextNoNumberAsZero(r, text) ==
    LET line == Strip(text)
        r1 == IF Contains(line, Chars["[download]"]) /\ Contains(line, <<"%">>)
              THEN LET pct == IF PctMatch(line) # NoMatch THEN PctMatch(line) ELSE 0
                   IN [r EXCEPT !.pcts = Append(@, pct),
                                !.progress = Append(@, DownloadProgress(pct))]
              ELSE r
    IN IF /\ \/ Contains(line, Chars["[download] Destination:"])
             \/ Contains(line, Chars["Merging formats into"])
          /\ HasColon(line)
       THEN [r1 EXCEPT !.downloaded_file =
                          PathFile(StripQuotes(Strip(AfterColon(line))))]
       ELSE r1
\* The body of the read loop for a line that is not empty, from its text:
\* the progress of a "[download] ...%" line, the path of a destination line.
HandleText(r, text) ==
    LET line == Strip(text)
        r1 == IF /\ Contains(line, Chars["[download]"])
                 /\ Contains(line, <<"%">>)
                 /\ PctMatch(line) # NoMatch
              THEN [r EXCEPT !.pcts = Append(@, PctMatch(line)),
                             !.progress = Append(@, DownloadProgress(PctMatch(line)))]
              ELSE r
    IN IF /\ \/ Contains(line, Chars["[download] Destination:"])
             \/ Contains(line, Chars["Merging formats into"])
          /\ HasColon(line)
       THEN [r1 EXCEPT !.downloaded_file =
                          PathFile(StripQuotes(Strip(AfterColon(line))))]
       ELSE r1

\* (variant: the cancellation branch also removes what was downloaded)
CancelRemovingDownload(r, which) ==
    Fail([r EXCEPT !.dlProc = IF @ = "running" THEN "terminated" ELSE @,
                   !.ffProc = IF @ = "running" THEN "terminated" ELSE @,
                   !.fx = @ \cup {IF which = "ytdlp" THEN "terminate_ytdlp"
                                  ELSE "terminate_ffmpeg", "unlink"}],
         CancelledStatus)
\* The cancellation branch at the top of either read loop:
\* proc.terminate(), the status, return.
Cancel(r, which) ==
    LET r1 == IF which = "ytdlp"
              THEN [r EXCEPT !.dlProc = IF @ = "running" THEN "terminated" ELSE @,
                             !.fx = @ \cup {"terminate_ytdlp"}]
              ELSE [r EXCEPT !.ffProc = IF @ = "running" THEN "terminated" ELSE @,
                             !.fx = @ \cup {"terminate_ffmpeg"}]
    IN Fail(r1, CancelledStatus)

\* (variant: the output directory is created before the tools are looked for)
StartOutcomeMkdirFirst(r, ffmpegOk, ytdlpOk, mkdirOk, launchOk) ==
    IF ~mkdirOk THEN [r EXCEPT !.pc = "ended", !.raised = TRUE]
    ELSE LET r0 == [r EXCEPT !.fx = @ \cup {"mkdir"}]
         IN IF ~ffmpegOk THEN Fail(r0, FfmpegMissingStatus)
            ELSE IF ~ytdlpOk THEN Fail(r0, YtdlpMissingStatus)
            ELSE LET r1 == Emit(r0, StartingStatus)
                 IN IF ~launchOk THEN Fail(r1, DownloadFailedStatus)
                    ELSE [r1 EXCEPT !.pc = "dl_loop", !.dlProc = "running",
                                    !.dlLaunches = @ + 1,
                                    !.fx = @ \cup {"popen_ytdlp"}]

\* From the top of run() to the Popen of yt-dlp: the two existence checks,
\* mkdir (outside any try: an exception there leaves run()), the first
\* status, the launch (inside the try).
StartOutcome(r, ffmpegOk, ytdlpOk, mkdirOk, launchOk) ==
    IF ~ffmpegOk THEN Fail(r, FfmpegMissingStatus)
    ELSE IF ~ytdlpOk THEN Fail(r, YtdlpMissingStatus)
    ELSE IF ~mkdirOk THEN [r EXCEPT !.pc = "ended", !.raised = TRUE]
    ELSE LET r1 == Emit([r EXCEPT !.fx = @ \cup {"mkdir"}], StartingStatus)
         IN IF ~launchOk THEN Fail(r1, DownloadFailedStatus)
            ELSE [r1 EXCEPT !.pc = "dl_loop", !.dlProc = "running",
                            !.dlLaunches = @ + 1,
                            !.fx = @ \cup {"popen_ytdlp"}]

RunStart(w) ==
    /\ app = "running"
    /\ wk[w].pc = "start"
    /\ \E mkdirOk \in BOOLEAN, launchOk \in BOOLEAN :
         LET r == StartOutcome(wk[w], ffmpegPresent, ytdlpPresent, mkdirOk, launchOk)
         IN wk' = [wk EXCEPT ![w] =
                     IF StartingStatus \in {r.status[i] : i \in 1..Len(r.status)}
                     THEN [r EXCEPT !.use_speed = SpeedRead(w)]
                     ELSE r]
    /\ UNCHANGED <<app, uiVars, uiQueue, files, envVars, jobs>>

\* Top of the download loop: the poll of the stop flag.
DlLoopTop(w) ==
    /\ app = "running"
    /\ wk[w].pc = "dl_loop"
    /\ wk' = [wk EXCEPT ![w] =
                IF @.stop THEN Cancel(@, "ytdlp") ELSE [@ EXCEPT !.pc = "dl_read"]]
    /\ UNCHANGED <<app, uiVars, uiQueue, files, envVars, jobs>>

\* proc.stdout.readline() returns a progress or a destination line.
DlReadLine(w) ==
    /\ app = "running"
    /\ wk[w].pc = "dl_read"
    /\ wk[w].dlProc = "running"
    /\ wk[w].lines < MaxLines
    /\ \E line \in DlLines :
         wk' = [wk EXCEPT ![w] =
                  [HandleLine(@, line) EXCEPT !.pc = "dl_loop", !.lines = @ + 1]]
    /\ UNCHANGED <<app, uiVars, uiQueue, files, envVars, jobs>>

\* readline() returns a line that is only logged, or "" while the process
\* is still alive (poll() is None): the loop goes round.
DlReadOther(w) ==
    /\ app = "running"
    /\ wk[w].pc = "dl_read"
    /\ wk[w].dlProc = "running"
    /\ wk' = [wk EXCEPT ![w].pc = "dl_loop"]
    /\ UNCHANGED <<app, uiVars, uiQueue, files, envVars, jobs>>

\* readline() returns "" and poll() is not None: break.
DlReadEof(w) ==
    /\ app = "running"
    /\ wk[w].pc = "dl_read"
    /\ wk[w].dlProc = "exited"
    /\ wk' = [wk EXCEPT ![w].pc = "dl_wait"]
    /\ UNCHANGED <<app, uiVars, uiQueue, files, envVars, jobs>>

\* yt-dlp exits by itself; with code 0 it has written at most one file into
\* the output directory.
DlProcExit(w) ==
    /\ app = "running"
    /\ wk[w].dlProc = "running"
    /\ \E code \in ExitCodes, f \in DlNames \cup {NoFile} :
         /\ code # 0 => f = NoFile
         /\ wk' = [wk EXCEPT ![w].dlProc = "exited", ![w].dlRet = code,
                              ![w].written = f]
         /\ files' = IF f = NoFile THEN files ELSE Touch(files, f)
    /\ UNCHANGED <<app, uiVars, uiQueue, envVars, jobs>>

\* shutil.move(src, dst): dst takes the place and the mtime of src.
MoveFile(fs, src, dst) ==
    LET kept == RemoveFile(fs, dst)
    IN [i \in 1..Len(kept) |-> IF kept[i] = src THEN dst ELSE kept[i]]

NoInfo == [outfile |-> NoFile, title |-> <<>>, format |-> ""]
Signal(t, i) == [type |-> t, info |-> i]

\* The dict of finished_success.
Info(r) == [outfile |-> r.out_path, title |-> BaseTitle(r.downloaded_file),
            format |-> OutExt(r.format_choice)]

\* The last three statements of run(): progress 100, the success status and
\* finished_success.
Report(r) ==
    [Emit(r, SavedStatus) EXCEPT !.progress = Append(@, FullProgress),
                                 !.success = TRUE, !.pc = "ended"]

\* (variant: the oldest entry of the directory instead of the newest)
LocatedOldest(r, fs) ==
    IF r.downloaded_file # NoFile /\ Exists(fs, r.downloaded_file)
    THEN r.downloaded_file
    ELSE IF fs # <<>> THEN Head(fs) ELSE NoFile
\* "if not downloaded_file or not os.path.exists(downloaded_file)": the
\* learned path, or failing that the newest entry of the directory.
Located(r, fs) ==
    IF r.downloaded_file # NoFile /\ Exists(fs, r.downloaded_file)
    THEN r.downloaded_file
    ELSE IF fs # <<>> THEN Newest(fs) ELSE NoFile

\* (variant: the exit code is not looked at)
ExitIgnored(ret) == FALSE
\* "if ret != 0" after either proc.wait()
ExitFailed(ret) == ret # 0

\* (variant: a failed move still reports the target path)
RenamedKeepingTarget(r, moveOk) ==
    IF r.downloaded_file = r.out_path THEN r
    ELSE IF moveOk THEN [r EXCEPT !.fx = @ \cup {"move"}]
    ELSE [r EXCEPT !.fx = @ \cup {"move_failed"}]
\* The video branch: "if downloaded_path != out_path", shutil.move, and
\* "out_path = downloaded_path" when the move raises.
Renamed(r, moveOk) ==
    IF r.downloaded_file = r.out_path THEN r
    ELSE IF moveOk THEN [r EXCEPT !.fx = @ \cup {"move"}]
    ELSE [r EXCEPT !.out_path = r.downloaded_file,
                   !.fx = @ \cup {"move_failed"}]

\* (variant: a failed download is started once more)
YtdlpExitRetried(r) ==
    IF r.dlLaunches < 2
    THEN [r EXCEPT !.pc = "dl_loop", !.dlProc = "running", !.dlLaunches = @ + 1]
    ELSE Fail(r, YtdlpFailedStatus)
\* "if ret != 0" after the download: the status, return.
YtdlpExitReported(r) == Fail(r, YtdlpFailedStatus)

\* After the download loop: proc.wait(), the search for the file, the
\* names, then the launch of ffmpeg (audio) or the rename (video) and the
\* report.
AfterDownload(w) ==
    /\ app = "running"
    /\ wk[w].pc = "dl_wait"
    /\ LET r0 == wk[w]
           df == Located(r0, files)
           r == [r0 EXCEPT !.downloaded_file = df,
                           !.out_path = OutPath(r0.format_choice, df)]
       IN IF ExitFailed(r0.dlRet)
          THEN /\ wk' = [wk EXCEPT ![w] = YtdlpExitReported(r0)]
               /\ UNCHANGED <<files, uiQueue>>
          ELSE IF df = NoFile
          THEN /\ wk' = [wk EXCEPT ![w] = Fail(r0, NotLocatedStatus)]
               /\ UNCHANGED <<files, uiQueue>>
          ELSE IF r.format_choice \in AudioFormats
          THEN /\ \E launchOk \in BOOLEAN :
                    wk' = [wk EXCEPT ![w] =
                       IF launchOk
                       THEN [Emit(r, ConvertingStatus) EXCEPT
                                !.pc = "ff_loop", !.ffProc = "running",
                                !.ffLaunches = @ + 1,
                                !.fx = @ \cup {"popen_ffmpeg"}]
                       ELSE Fail(Emit(r, ConvertingStatus), ConversionErrorStatus)]
               /\ UNCHANGED <<files, uiQueue>>
          ELSE \E moveOk \in BOOLEAN :
                 LET r2 == Renamed(r, moveOk)
                 IN /\ files' = IF "move" \in r2.fx
                                 THEN MoveFile(files, df, r.out_path) ELSE files
                    /\ wk' = [wk EXCEPT ![w] = Report(r2)]
                    /\ uiQueue' = Append(uiQueue, Signal("finished_success", Info(r2)))
    /\ UNCHANGED <<app, uiVars, envVars, jobs>>

\* Top of the conversion loop: the poll of the stop flag.
FfLoopTop(w) ==
    /\ app = "running"
    /\ wk[w].pc = "ff_loop"
    /\ wk' = [wk EXCEPT ![w] =
                IF @.stop THEN Cancel(@, "ffmpeg") ELSE [@ EXCEPT !.pc = "ff_read"]]
    /\ UNCHANGED <<app, uiVars, uiQueue, files, envVars, jobs>>

\* proc.stderr.readline() returns a line, which is logged, or "" while
\* ffmpeg is still alive: the loop goes round.
FfReadLine(w) ==
    /\ app = "running"
    /\ wk[w].pc = "ff_read"
    /\ wk[w].ffProc = "running"
    /\ wk' = [wk EXCEPT ![w].pc = "ff_loop"]
    /\ UNCHANGED <<app, uiVars, uiQueue, files, envVars, jobs>>

\* readline() returns "" and poll() is not None: break.
FfReadEof(w) ==
    /\ app = "running"
    /\ wk[w].pc = "ff_read"
    /\ wk[w].ffProc = "exited"
    /\ wk' = [wk EXCEPT ![w].pc = "ff_wait"]
    /\ UNCHANGED <<app, uiVars, uiQueue, files, envVars, jobs>>

\* ffmpeg exits by itself; with code 0 it has written its output (-y).
FfProcExit(w) ==
    /\ app = "running"
    /\ wk[w].ffProc = "running"
    /\ \E code \in ExitCodes :
         /\ wk' = [wk EXCEPT ![w].ffProc = "exited", ![w].ffRet = code]
         /\ files' = IF code = 0 THEN Touch(files, wk[w].out_path) ELSE files
    /\ UNCHANGED <<app, uiVars, uiQueue, envVars, jobs>>

\* (variant: the comparison of the two paths inverted)
NeedsCleanupSamePath(fs, dp, op) == Exists(fs, dp) /\ dp = op
\* "if dp.exists() and dp.resolve() != op.resolve()"
NeedsCleanup(fs, dp, op) == Exists(fs, dp) /\ dp # op

\* After the conversion loop: proc.wait(), the ID3 tag (MP3 only), the
\* removal of the downloaded file, the report.
AfterConvert(w) ==
    /\ app = "running"
    /\ wk[w].pc = "ff_wait"
    /\ LET r == wk[w]
           dp == r.downloaded_file
       IN IF ExitFailed(r.ffRet)
          THEN /\ wk' = [wk EXCEPT ![w] = Fail(r, FfmpegFailedStatus)]
               /\ UNCHANGED <<files, uiQueue>>
          ELSE \E tagOk \in BOOLEAN, unlinkOk \in BOOLEAN :
                 LET r1 == IF OutExt(r.format_choice) # "mp3" THEN r
                           ELSE IF tagOk THEN [r EXCEPT !.fx = @ \cup {"tag"}]
                           ELSE [r EXCEPT !.fx = @ \cup {"tag_warning"}]
                     r2 == IF ~NeedsCleanup(files, dp, r.out_path) THEN r1
                           ELSE IF unlinkOk THEN [r1 EXCEPT !.fx = @ \cup {"unlink"}]
                           ELSE [r1 EXCEPT !.fx = @ \cup {"unlink_failed"}]
                 IN /\ files' = IF "unlink" \in r2.fx
                                 THEN RemoveFile(files, dp) ELSE files
                    /\ wk' = [wk EXCEPT ![w] = Report(r2)]
                    /\ uiQueue' = Append(uiQueue, Signal("finished_success", Info(r2)))
    /\ UNCHANGED <<app, uiVars, envVars, jobs>>

\* The window holds the only reference to a worker, in self.worker.
Referenced(w) == worker = w

\* run() has returned: QThread emits finished and the thread is over.
ThreadFinished(w) ==
    /\ app = "running"
    /\ wk[w].pc = "ended"
    /\ wk' = [wk EXCEPT ![w] = IdleWorker]
    /\ uiQueue' = Append(uiQueue, Signal("finished", NoInfo))
    /\ UNCHANGED <<app, uiVars, files, envVars, jobs>>

\* A worker nothing refers to any more is destroyed when its run() returns,
\* while its thread still counts as running: Qt aborts the process
\* ("QThread: Destroyed while thread is still running").
DestroyedWhileRunning(w) ==
    /\ app = "running"
    /\ wk[w].pc = "ended"
    /\ ~Referenced(w)
    /\ app' = "aborted"
    /\ UNCHANGED <<uiVars, uiQueue, wk, files, envVars, jobs>>

\* run() from its first statement to its return, as the window sees it: it
\* has emitted finished_success or it has not.  (Only SpecWindow takes run()
\* in one step; its steps are the actions above.)
RunWhole(w) ==
    /\ app = "running"
    /\ wk[w].pc = "start"
    /\ \E ok \in BOOLEAN :
         LET r == [wk[w] EXCEPT !.downloaded_file = File(TitlePlain, "webm"),
                                !.out_path = OutPath(wk[w].format_choice,
                                                     File(TitlePlain, "webm")),
                                !.use_speed = SpeedRead(w)]
         IN /\ ok => ffmpegPresent /\ ytdlpPresent
            /\ wk' = [wk EXCEPT ![w] = IF ok THEN Report(r)
                                       ELSE [wk[w] EXCEPT !.pc = "ended"]]
            /\ uiQueue' = IF ok
                          THEN Append(uiQueue, Signal("finished_success", Info(r)))
                          ELSE uiQueue
    /\ UNCHANGED <<app, uiVars, files, envVars, jobs>>

\* run() builds the format expression, and for an audio job the arguments
\* of ffmpeg, from the fields of its request.
Resolve ==
    /\ format_expr = <<>>
    /\ format_expr' = FormatExpression(request.format, request.quality,
                                       request.codec)
    /\ merge_args' = MergeOutputFormat(request.format)
    /\ ff_args' = IF request.format \in AudioFormats
                  THEN FfArgs(request.format, request.quality) ELSE <<>>
    /\ UNCHANGED <<app, uiVars, uiQueue, wk, files, ffmpegPresent, ytdlpPresent,
                   jobs, request, log_lines, dropdowns>>

\* Another request.
NextRequest ==
    /\ format_expr # <<>>
    /\ request' \in Requests
    /\ format_expr' = <<>>
    /\ merge_args' = <<>>
    /\ ff_args' = <<>>
    /\ UNCHANGED <<app, uiVars, uiQueue, wk, files, ffmpegPresent, ytdlpPresent,
                   jobs, log_lines, dropdowns>>

\* proc.stdout.readline() returns a line with text: "if line:", the strip,
\* log_line.emit(line) and the two searches.
ReadText(w) ==
    /\ app = "running"
    /\ wk[w].pc = "dl_read"
    /\ wk[w].dlProc = "running"
    /\ wk[w].lines < MaxLines
    /\ \E text \in LineTexts :
         /\ wk' = [wk EXCEPT ![w] =
                     [HandleText(@, text) EXCEPT !.pc = "dl_loop", !.lines = @ + 1]]
         /\ log_lines' = Append(log_lines, Strip(text))
    /\ UNCHANGED <<app, uiVars, uiQueue, files, ffmpegPresent, ytdlpPresent,
                   jobs, request, format_expr, merge_args, ff_args, dropdowns>>

\* What the dropdown actions leave alone.
jobVars == <<app, uiVars, uiQueue, wk, files, ffmpegPresent, ytdlpPresent, jobs,
             log_lines>>

\* The user picks another entry of the format dropdown.
SelectFormat ==
    /\ \E f \in Formats \ {dropdowns.format} :
         dropdowns' = update_format_options([dropdowns EXCEPT !.format = f])
    /\ UNCHANGED <<jobVars, request, format_expr, merge_args, ff_args>>

\* The user picks another entry of the quality dropdown.
SelectQuality ==
    /\ \E i \in 1..Len(dropdowns.quality_items) :
         /\ dropdowns.quality_items[i] # dropdowns.quality
         /\ dropdowns' = on_quality_changed(
                             [dropdowns EXCEPT !.quality = dropdowns.quality_items[i]])
    /\ UNCHANGED <<jobVars, request, format_expr, merge_args, ff_args>>

\* The user picks another entry of the codec dropdown, which is there to
\* pick from in MP4 mode.
SelectCodec ==
    /\ dropdowns.codec_visible
    /\ \E i \in 1..Len(dropdowns.codec_items) :
         /\ dropdowns.codec_items[i] # dropdowns.codec
         /\ dropdowns' = on_codec_changed(
                             [dropdowns EXCEPT !.codec = dropdowns.codec_items[i]])
    /\ UNCHANGED <<jobVars, request, format_expr, merge_args, ff_args>>

\* start_download reads the dropdowns and hands their texts to a new
\* DownloadWorker (the codec for MP4 only).
ReadDropdowns ==
    /\ dropdowns.quality # <<>>
    /\ request' = [format |-> dropdowns.format,
                   quality |-> dropdowns.quality,
                   codec |-> IF dropdowns.format = "MP4" THEN dropdowns.codec
                             ELSE ""]
    /\ format_expr' = <<>>
    /\ merge_args' = <<>>
    /\ ff_args' = <<>>
    /\ UNCHANGED <<jobVars, dropdowns>>

\* The steps of one worker thread and of its subprocesses.
WorkerStep(w) ==
    \/ RunStart(w)
    \/ DlLoopTop(w)
    \/ DlReadLine(w)
    \/ DlReadOther(w)
    \/ DlReadEof(w)
    \/ DlProcExit(w)
    \/ AfterDownload(w)
    \/ FfLoopTop(w)
    \/ FfReadLine(w)
    \/ FfReadEof(w)
    \/ FfProcExit(w)
    \/ AfterConvert(w)
    \/ ThreadFinished(w)

\* The whole program.
Next ==
    \/ ClickDownload
    \/ ReturnPressed
    \/ ClickCancel
    \/ DeliverSignal
    \/ remove_from_history
    \/ delete_file_and_remove_history
    \/ clear_history
    \/ do_save
    \/ \E w \in Slots : WorkerStep(w) \/ DestroyedWhileRunning(w)

Spec == Init /\ [][Next]_vars

\* Jobs started with the Download button only.  The button stays disabled
\* from start_download to _on_worker_finished, so the jobs follow one
\* another and the window refers to every worker until it has finished.
NextButton ==
    \/ ClickDownload
    \/ ClickCancel
    \/ DeliverSignal
    \/ \E w \in Slots : WorkerStep(w)

SpecButton == Init /\ [][NextButton]_vars

\* The window and the life cycle of its worker threads, jobs started with
\* the button or with Enter, the history and the settings changed by the
\* user, run() taken in one step.
NextWindow ==
    \/ ClickDownload
    \/ ReturnPressed
    \/ ClickCancel
    \/ DeliverSignal
    \/ remove_from_history
    \/ delete_file_and_remove_history
    \/ clear_history
    \/ do_save
    \/ \E w \in Slots :
         \/ RunWhole(w)
         \/ ThreadFinished(w)
         \/ DestroyedWhileRunning(w)

SpecWindow == Init /\ [][NextWindow]_vars

\* The format expression of every request, computed on its own.
InitResolver ==
    /\ app = "running"
    /\ start_enabled = TRUE
    /\ cancel_enabled = FALSE
    /\ worker = None
    /\ history = <<>>
    /\ settings = DefaultSettings
    /\ uiQueue = <<>>
    /\ wk = [w \in Slots |-> IdleWorker]
    /\ files = <<>>
    /\ ffmpegPresent = TRUE
    /\ ytdlpPresent = TRUE
    /\ jobs = 0
    /\ request \in Requests
    /\ format_expr = <<>>
    /\ merge_args = <<>>
    /\ ff_args = <<>>
    /\ log_lines = <<>>
    /\ dropdowns = InitialDropdowns

NextResolver ==
    \/ Resolve
    \/ NextRequest

SpecResolver == InitResolver /\ [][NextResolver]_vars

\* The read loop of a download on the text of its lines: one worker that
\* has launched yt-dlp, whose stop may be requested.
InitLines ==
    /\ app = "running"
    /\ start_enabled = FALSE
    /\ cancel_enabled = TRUE
    /\ worker = "w1"
    /\ history = <<>>
    /\ settings = DefaultSettings
    /\ uiQueue = <<>>
    /\ \E fmt \in Formats :
         wk = [w \in Slots |->
                 IF w = "w1"
                 THEN [StartOutcome(NewWorker(fmt), TRUE, TRUE, TRUE, TRUE)
                          EXCEPT !.use_speed = "on"]
                 ELSE IdleWorker]
    /\ files = <<>>
    /\ ffmpegPresent = TRUE
    /\ ytdlpPresent = TRUE
    /\ jobs = 1
    /\ request = [format |-> "MP3", quality |-> Kbps320, codec |-> ""]
    /\ format_expr = <<>>
    /\ merge_args = <<>>
    /\ ff_args = <<>>
    /\ log_lines = <<>>
    /\ dropdowns = InitialDropdowns

NextLines ==
    \/ ClickCancel
    \/ \E w \in Slots :
         \/ DlLoopTop(w)
         \/ ReadText(w)

SpecLines == InitLines /\ [][NextLines]_vars

\* The dropdowns, the requests start_download makes of them and what run()
\* builds for each.
InitDropdowns ==
    /\ app = "running"
    /\ start_enabled = TRUE
    /\ cancel_enabled = FALSE
    /\ worker = None
    /\ history = <<>>
    /\ settings = DefaultSettings
    /\ uiQueue = <<>>
    /\ wk = [w \in Slots |-> IdleWorker]
    /\ files = <<>>
    /\ ffmpegPresent = TRUE
    /\ ytdlpPresent = TRUE
    /\ jobs = 0
    /\ request = [format |-> "MP3", quality |-> Kbps320, codec |-> ""]
    /\ format_expr = <<>>
    /\ merge_args = <<>>
    /\ ff_args = <<>>
    /\ log_lines = <<>>
    /\ dropdowns = InitialDropdowns

NextDropdowns ==
    \/ SelectFormat
    \/ SelectQuality
    \/ SelectCodec
    \/ ReadDropdowns
    \/ Resolve

SpecDropdowns == InitDropdowns /\ [][NextDropdowns]_vars

\* Threads get scheduled and the event loop keeps running; the user is
\* under no obligation.
FairWindow ==
    /\ SpecWindow
    /\ WF_vars(DeliverSignal)
    /\ \A w \in Slots : WF_vars(RunWhole(w)) /\ WF_vars(ThreadFinished(w))

\* Every worker thread and its subprocess keep making steps: the thread is
\* scheduled, and readline() returns because the subprocess writes a line
\* or closes its output.
FairButton ==
    /\ SpecButton
    /\ WF_vars(DeliverSignal)
    /\ \A w \in Slots : WF_vars(WorkerStep(w))

\* ================================================================ claims
Last(q) == q[Len(q)]
Errors(r) == {i \in 1..Len(r.status) : r.status[i].kind = "error"}
\* run() took the cancellation branch of one of its loops.
Cancelled(r) == r.fx \cap {"terminate_ytdlp", "terminate_ffmpeg"} # {}
FailureStatuses ==
    {FfmpegMissingStatus, YtdlpMissingStatus, YtdlpFailedStatus, NotLocatedStatus,
     DownloadFailedStatus, FfmpegFailedStatus, ConversionErrorStatus}

\* C1 (as claimed; SpecWindow): at most one DownloadWorker is active at any
\* time, whatever the order of clicks, Enter presses and notifications.
C1_AtMostOneActive == Cardinality(Active) <= 1

\* C2 (as claimed; SpecButton): a job whose stop was requested while yt-dlp
\* was running ends with "Operation cancelled by user." and without
\* finished_success.
C2_CancelMidDownload ==
    \A w \in Slots :
        (Ended(w) /\ wk[w].stopAt = "downloading")
            => /\ wk[w].status # <<>>
               /\ Last(wk[w].status) = CancelledStatus
               /\ ~wk[w].success

\* C3 (as claimed; SpecButton): a worker whose stop flag is set emits no
\* further progress_changed.
C3_NoProgressAfterStop ==
    [][\A w \in Slots :
          wk[w].stop => Len(wk'[w].progress) <= Len(wk[w].progress)]_vars

\* C4 (as claimed; SpecButton): the kind of the status a cancelled run
\* reports is none of the kinds run() reports for failures.
C4_KindDistinct ==
    \A w \in Slots :
        (Ended(w) /\ Cancelled(wk[w]))
            => Last(wk[w].status).kind \notin {s.kind : s \in FailureStatuses}

\* C4 (amended; SpecButton): a run that ends on an error reports it with
\* kind "error", cancelled or failed alike, and the message is "Operation
\* cancelled by user." exactly when the run took a cancellation branch.
C4_CancelledByMessage ==
    \A w \in Slots :
        (Ended(w) /\ Errors(wk[w]) # {})
            => /\ Last(wk[w].status).kind = "error"
               /\ Cancelled(wk[w]) <=>
                    Last(wk[w].status).msg = "Operation cancelled by user."
               /\ ~Cancelled(wk[w]) => Last(wk[w].status) \in FailureStatuses

C4_Witness ==
    \E w \in Slots :
        /\ Ended(w)
        /\ Cancelled(wk[w])
        /\ Last(wk[w].status) = Status("error", "Operation cancelled by user.")

\* C5 (as claimed; SpecButton): a run that has ended has emitted exactly one
\* terminal outcome: finished_success after a "success" status and no error,
\* or one "error" status and no finished_success.
C5_OneTerminalOutcome ==
    \A w \in Slots :
        Ended(w) =>
            \/ /\ wk[w].success
               /\ Errors(wk[w]) = {}
               /\ Last(wk[w].status).kind = "success"
            \/ /\ ~wk[w].success
               /\ Cardinality(Errors(wk[w])) = 1

\* C6 (SpecButton): once ffmpeg has exited with a non-zero code the run tags
\* nothing, removes nothing, reports neither progress 100 nor
\* finished_success, and when it has ended its last status is an error.
C6_TranscoderFailure ==
    \A w \in Slots :
        (wk[w].ffProc = "exited" /\ wk[w].ffRet # 0)
            => /\ wk[w].fx \cap {"tag", "tag_warning", "unlink", "unlink_failed",
                                 "move", "move_failed"} = {}
               /\ \A i \in 1..Len(wk[w].progress) : wk[w].progress[i] # 100
               /\ ~wk[w].success
               /\ Ended(w) => /\ wk[w].status # <<>>
                              /\ Last(wk[w].status).kind = "error"

C6_Witness ==
    \E w \in Slots :
        /\ Ended(w)
        /\ wk[w].ffProc = "exited"
        /\ wk[w].ffRet = 1
        /\ Last(wk[w].status) = FfmpegFailedStatus

\* C7 (SpecButton): with ffmpeg or yt-dlp absent, a run that has started has
\* ended on the one error status of the missing tool, has launched nothing,
\* has not created the output directory, has emitted no progress and no
\* finished_success, and has returned normally with the application running.
C7_MissingTool ==
    \A w \in Slots :
        (wk[w].pc \notin {"idle", "start"} /\ ~(ffmpegPresent /\ ytdlpPresent))
            => /\ Ended(w)
               /\ wk[w].status = <<IF ~ffmpegPresent THEN FfmpegMissingStatus
                                   ELSE YtdlpMissingStatus>>
               /\ wk[w].fx = {}
               /\ wk[w].dlProc = "none" /\ wk[w].ffProc = "none"
               /\ wk[w].progress = <<>>
               /\ ~wk[w].success
               /\ ~wk[w].raised
               /\ app = "running"

C7_Witness ==
    \E w \in Slots :
        /\ Ended(w)
        /\ ffmpegPresent /\ ~ytdlpPresent
        /\ wk[w].status = <<YtdlpMissingStatus>>

\* C8 (as claimed; FairWindow): every run that has ended is followed by a
\* state with Download enabled, Cancel disabled and self.worker cleared.
C8_ControlsRestored ==
    \A w \in Slots :
        (wk[w].pc = "ended")
            ~> (start_enabled /\ ~cancel_enabled /\ worker = None)

\* C9 (SpecButton): the i-th progress value of the download is
\* min(80, 0.8 x the i-th parsed percentage), so at most 80; the value 100
\* occurs only as the last value of a run that reports success.
C9_ProgressCapped ==
    \A w \in Slots :
        LET r == wk[w]
        IN /\ Len(r.progress) = Len(r.pcts) + (IF r.success THEN 1 ELSE 0)
           /\ \A i \in 1..Len(r.pcts) :
                /\ r.progress[i] = (IF r.pcts[i] * 4 <= 80 * 5
                                    THEN (r.pcts[i] * 4) \div 5 ELSE 80)
                /\ r.progress[i] <= 80
           /\ \A i \in 1..Len(r.progress) :
                r.progress[i] = 100 => (i = Len(r.progress) /\ r.success)

C9_Witness ==
    \E w \in Slots :
        /\ wk[w].dlProc = "running"
        /\ wk[w].pcts = <<125>>
        /\ wk[w].progress = <<80>>

\* A successful audio job whose downloaded path differs from its output path.
ConvertedElsewhere(w) ==
    /\ Ended(w)
    /\ wk[w].success
    /\ wk[w].format_choice \in AudioFormats
    /\ wk[w].downloaded_file # wk[w].out_path

\* C10 (as claimed; SpecButton): when such a job reports completion the
\* downloaded file no longer exists and the converted file does.
C10_IntermediateGone ==
    \A w \in Slots :
        ConvertedElsewhere(w)
            => /\ ~Exists(files, wk[w].downloaded_file)
               /\ Exists(files, wk[w].out_path)

\* C10 (amended; SpecButton): when such a job reports completion the
\* converted file exists, and the downloaded file is gone unless its removal
\* failed (which the run only logs).
C10_IntermediateRemoved ==
    \A w \in Slots :
        ConvertedElsewhere(w)
            => /\ Exists(files, wk[w].out_path)
               /\ "unlink" \in wk[w].fx => ~Exists(files, wk[w].downloaded_file)
               /\ Exists(files, wk[w].downloaded_file)
                    => "unlink_failed" \in wk[w].fx

C10_Witness ==
    \E w \in Slots :
        /\ ConvertedElsewhere(w)
        /\ wk[w].downloaded_file = File(<<"A">>, "webm")
        /\ wk[w].out_path = File(<<"A">>, "mp3")
        /\ "unlink" \in wk[w].fx
        /\ ~Exists(files, File(<<"A">>, "webm"))
        /\ Exists(files, File(<<"A">>, "mp3"))

\* C11 (SpecButton): when yt-dlp has exited with code 0 and no destination
\* was learned, or the learned path does not exist, the step that follows
\* takes the newest entry of the output directory as the downloaded file, or
\* with an empty directory ends the run on "Could not locate downloaded
\* file." without finished_success.
C11_FallbackLocate ==
    [][\A w \in Slots :
          (/\ wk[w].pc = "dl_wait"
           /\ wk'[w].pc # "dl_wait"
           /\ wk[w].dlRet = 0
           /\ \/ wk[w].downloaded_file = NoFile
              \/ ~Exists(files, wk[w].downloaded_file))
            => IF files # <<>>
               THEN /\ wk'[w].downloaded_file = files[Len(files)]
                    /\ NotLocatedStatus \notin
                         {wk'[w].status[i] : i \in 1..Len(wk'[w].status)}
               ELSE /\ wk'[w].pc = "ended"
                    /\ Last(wk'[w].status) = NotLocatedStatus
                    /\ ~wk'[w].success]_vars

C11_Witness ==
    \E w \in Slots :
        /\ wk[w].ffProc = "running"
        /\ wk[w].lines = 0
        /\ Len(files) = 2
        /\ wk[w].downloaded_file = files[2]

\* C12 (SpecButton): a video job that has reported success has moved the
\* downloaded file to the sanitized target path and reports the target when
\* the two differ and the move succeeded; has moved nothing when they are
\* equal; and reports the downloaded path when the move failed.
C12_VideoRename ==
    \A w \in Slots :
        LET r == wk[w]
            target == File(SafeBasename(BaseTitle(r.downloaded_file)), "mp4")
        IN (Ended(w) /\ r.success /\ r.format_choice = "MP4")
            => /\ r.downloaded_file = target
                    => /\ r.fx \cap {"move", "move_failed"} = {}
                       /\ r.out_path = target
               /\ r.downloaded_file # target
                    => \/ /\ "move" \in r.fx
                          /\ "move_failed" \notin r.fx
                          /\ r.out_path = target
                          /\ Exists(files, target)
                          /\ ~Exists(files, r.downloaded_file)
                       \/ /\ "move_failed" \in r.fx
                          /\ "move" \notin r.fx
                          /\ r.out_path = r.downloaded_file

C12_Witness ==
    \E w \in Slots :
        /\ Ended(w)
        /\ wk[w].success
        /\ wk[w].format_choice = "MP4"
        /\ wk[w].downloaded_file = File(<<"A", "&">>, "mp4")
        /\ wk[w].out_path = File(<<"A">>, "mp4")
        /\ "move" \in wk[w].fx

\* C13 (SpecButton): a run that has ended without success has removed and
\* renamed nothing, and every step in which an entry leaves the output
\* directory is a step in which a worker reports success.
C13_NoCleanupOnError ==
    /\ [](\A w \in Slots :
            (Ended(w) /\ ~wk[w].success) => wk[w].fx \cap {"unlink", "move"} = {})
    /\ [][\A i \in 1..Len(files) :
            ~Exists(files', files[i])
                => \E w \in Slots : ~wk[w].success /\ wk'[w].success]_vars

C13_Witness ==
    \E w \in Slots :
        /\ Ended(w)
        /\ "terminate_ffmpeg" \in wk[w].fx
        /\ wk[w].downloaded_file = File(<<"A">>, "webm")
        /\ Exists(files, wk[w].downloaded_file)

\* C14 (SpecButton): ffmpeg has been launched only by a job whose format is
\* MP3 or WAV, whose yt-dlp has exited with code 0 and which has located a
\* downloaded file; an MP4 job has no ffmpeg process.
C14_TranscoderOnlyForAudio ==
    \A w \in Slots :
        (wk[w].ffProc # "none" \/ wk[w].ffLaunches > 0 \/ "popen_ffmpeg" \in wk[w].fx)
            => /\ wk[w].format_choice \in {"MP3", "WAV"}
               /\ wk[w].dlProc = "exited"
               /\ wk[w].dlRet = 0
               /\ wk[w].downloaded_file # NoFile

C14_Witness ==
    \E w \in Slots :
        /\ wk[w].ffProc = "running"
        /\ wk[w].format_choice = "WAV"
        /\ wk[w].dlRet = 0

\* C15 (SpecButton): a job launches yt-dlp at most once and ffmpeg at most
\* once, and once it has reported an error it has ended and none of its
\* subprocesses is running.
C15_NoRetries ==
    \A w \in Slots :
        /\ wk[w].dlLaunches <= 1
        /\ wk[w].ffLaunches <= 1
        /\ Errors(wk[w]) # {}
            => /\ Ended(w)
               /\ wk[w].dlProc # "running"
               /\ wk[w].ffProc # "running"

C15_Witness ==
    \E w \in Slots :
        /\ Ended(w)
        /\ wk[w].dlRet = 1
        /\ wk[w].dlLaunches = 1
        /\ wk[w].ffLaunches = 0
        /\ Last(wk[w].status) = YtdlpFailedStatus

\* A step of the event loop that hands finished_success to its slot.
DeliversSuccess ==
    /\ uiQueue # <<>>
    /\ uiQueue' = Tail(uiQueue)
    /\ Head(uiQueue).type = "finished_success"
\* The entries the completion of a job with this output path leaves alone.
OthersOf(h, outfile) == SelectSeq(h, LAMBDA e : e.outfile # outfile)

\* C16 (as claimed; SpecWindow): the delivery of finished_success leaves a
\* history that holds the entry of that job, once, at the front; no other
\* step makes the history longer.
C16_OneEntryPerSuccess ==
    [][IF DeliversSuccess
       THEN LET info == Head(uiQueue).info
            IN /\ history' # <<>>
               /\ Head(history').outfile = info.outfile
               /\ Head(history').title = info.title
               /\ Head(history').format = info.format
               /\ \A i \in 2..Len(history') : history'[i].outfile # info.outfile
       ELSE Len(history') <= Len(history)]_vars

\* C17 (as claimed; SpecWindow): a step that handles the notification of a
\* job (finished_success or finished) keeps every entry the history had.
C17_CompletionKeepsEntries ==
    [][uiQueue' # uiQueue
         => \A i \in 1..Len(history) :
               \E j \in 1..Len(history') : history'[j] = history[i]]_vars

\* C17 (amended; SpecWindow): the delivery of finished_success, when
\* history.json is written, drops exactly the earlier entries with the
\* output path of the new entry and keeps the others unchanged and in order
\* behind it; when the file is not written the history becomes what the file
\* holds, the entries it had or none.  The delivery of finished and the
\* steps of the workers leave the history as it is.
C17_CompletionDropsSameOutput ==
    [][uiQueue' # uiQueue
         => IF DeliversSuccess
            THEN \/ history' \in {history, <<>>}
                 \/ /\ history' # <<>>
                    /\ Tail(history') =
                         OthersOf(history, Head(uiQueue).info.outfile)
            ELSE history' = history]_vars

C17_Witness ==
    /\ Len(history) = 2
    /\ history[2].timestamp < history[1].timestamp
    /\ history[1].outfile # history[2].outfile

\* C18 (as claimed; SpecWindow): while a job runs, no step changes its
\* request fields or the settings its worker refers to.
C18_RequestImmutable ==
    [][\A w \in Slots :
          (Running(w) /\ wk'[w].pc # "idle")
            => /\ wk'[w].format_choice = wk[w].format_choice
               /\ wk'[w].outdir = wk[w].outdir
               /\ WorkerSettings(w)' = WorkerSettings(w)]_vars


\* The format expression of a video request has been built.
ResolvedVideo == request.format = "MP4" /\ format_expr # <<>>
Pieces(expr) == {expr[i] : i \in 1..Len(expr)}
IsHeightPiece(p) == \E h \in 0..9999 : p = HeightPart(h)

\* C19 (as claimed): for every video quality label that does not match
\* "<digits>p", the format expression carries the height ceiling height<=720.
C19_Height720ForUnparsed ==
    (ResolvedVideo /\ HeightMatch(request.quality) = NoMatch)
        => HeightPart(DefaultHeight) \in Pieces(format_expr)

\* C19 (amended): for every video quality label that is "Best Available" or
\* is not a resolution of the table, the format expression carries no height
\* ceiling at all, whatever the codec.
C19_NoHeightOutsideTable ==
    (ResolvedVideo /\ request.quality \notin ResolutionLabels)
        => \A p \in Pieces(format_expr) : ~IsHeightPiece(p)

\* "Best Available" with a specific codec: a codec constraint and no height.
C19_Witness ==
    /\ ResolvedVideo
    /\ request.quality = BestAvailable
    /\ request.codec = "VP9"
    /\ format_expr = <<"bestvideo", "[", "vcodec^=vp9", "]", "+bestaudio/best",
                       "[", "vcodec^=vp9", "]", "/bestvideo+bestaudio/best">>

\* C20: for every (resolution, codec) pair of the compatibility tables the
\* format expression contains height<=H for the height H of the resolution
\* and vcodec^=S for the selector S of the codec, the height constraint
\* before the codec constraint.
C20_HeightThenCodec ==
    (/\ ResolvedVideo
     /\ request.quality \in ResolutionLabels
     /\ request.codec \in ResolutionCodecMatrix[request.quality])
        => LET H == CodecResolutionMatrix[request.codec][request.quality]
               S == FormatSelector[request.codec]
               at(p) == {i \in 1..Len(format_expr) : format_expr[i] = p}
           IN /\ at(HeightPart(H)) # {}
              /\ at(CodecPart(S)) # {}
              /\ \A j \in at(CodecPart(S)) :
                    j > 2 /\ format_expr[j - 2] = HeightPart(H)
                          /\ format_expr[j - 1] = "]["

C20_Witness ==
    /\ ResolvedVideo
    /\ request.quality = Res1440
    /\ request.codec = "AV1"
    /\ format_expr = <<"bestvideo", "[", "height<=1440", "][", "vcodec^=av01",
                       "]", "+bestaudio/best", "[", "height<=1440", "][",
                       "vcodec^=av01", "]", "/bestvideo+bestaudio/best">>


\* C21: the format expression of every video request, whatever its quality
\* and codec labels, ends with the unconstrained alternatives
\* bestvideo+bestaudio/best; a constrained expression has them as its last
\* alternatives, after the second group of constraints.
C21_UnconstrainedFallback ==
    ResolvedVideo
        => IF Len(format_expr) = 1
           THEN format_expr = <<"bestvideo+bestaudio/best">>
           ELSE /\ Last(format_expr) = "/bestvideo+bestaudio/best"
                /\ format_expr[Len(format_expr) - 1] = "]"
                /\ Head(format_expr) = "bestvideo"

C21_Witness ==
    /\ ResolvedVideo
    /\ request.quality = Res144
    /\ request.codec = "HEVC"
    /\ format_expr = <<"bestvideo", "[", "height<=144", "]", "+bestaudio/best",
                       "[", "height<=144", "]", "/bestvideo+bestaudio/best">>

\* The format expression of an audio request has been built.
ResolvedAudio == request.format \in {"MP3", "WAV"} /\ format_expr # <<>>

\* C22: for MP3 and WAV the format selector is bestaudio/best whatever the
\* quality and codec labels are, and no merge-output-format flag follows.
C22_AudioSelector ==
    ResolvedAudio
        => /\ format_expr = <<"bestaudio/best">>
           /\ "--merge-output-format" \notin Pieces(merge_args)

C22_Witness ==
    /\ ResolvedAudio
    /\ request.format = "WAV"
    /\ request.quality = Res1080
    /\ request.codec = "VP9"
    /\ format_expr = <<"bestaudio/best">>
    /\ merge_args = <<>>

\* The argument that follows a flag in ff_args ("" without the flag).
ArgOf(flag) ==
    IF \E i \in 1..(Len(ff_args) - 1) : ff_args[i] = flag
    THEN ff_args[(CHOOSE i \in 1..(Len(ff_args) - 1) : ff_args[i] = flag) + 1]
    ELSE ""

\* C23: for every audio format and every quality label of its table the
\* lookup succeeds and the arguments come from the table entry: MP3 gives a
\* non-empty codec and bitrate (-c:a, -b:a); WAV gives the codec and the
\* sample rate (-c:a, -ar) and no bitrate; the output extension is the
\* lower-cased format; WAV "16-bit (44.1 kHz)" gives pcm_s16le, 44100, wav.
C23_TranscoderArguments ==
    (ResolvedAudio /\ request.quality \in DOMAIN AUDIO_FORMATS[request.format])
        => LET entry == AUDIO_FORMATS[request.format][request.quality]
           IN /\ ff_args # KeyError
              /\ ArgOf("-c:a") = entry.codec
              /\ ArgOf("-c:a") # ""
              /\ request.format = "MP3"
                    => /\ ArgOf("-b:a") = entry.bitrate
                       /\ ArgOf("-b:a") # ""
                       /\ Last(ff_args) = ".mp3"
              /\ request.format = "WAV"
                    => /\ ArgOf("-ar") = entry.sample_rate
                       /\ "-b:a" \notin Pieces(ff_args)
                       /\ Last(ff_args) = ".wav"
              /\ (request.format = "WAV" /\ request.quality = Chars["16-bit (44.1 kHz)"])
                    => /\ ArgOf("-c:a") = "pcm_s16le"
                       /\ ArgOf("-ar") = "44100"

C23_Witness ==
    /\ ResolvedAudio
    /\ request.format = "WAV"
    /\ request.quality = Chars["16-bit (44.1 kHz)"]
    /\ ff_args = <<"ffmpeg", "-y", "-i", "downloaded_path", "-vn", "-map", "0:a",
                   "-c:a", "pcm_s16le", "-ar", "44100", ".wav">>


\* A line that matches neither the percentage pattern nor a destination
\* pattern.
Unmatched(text) ==
    /\ PctMatch(Strip(text)) = NoMatch
    /\ ~Contains(text, <<"D", "e", "s", "t", "i", "n", "a", "t", "i", "o", "n", ":">>)
    /\ ~Contains(text, Chars["Merging formats into"])

\* C24 (SpecLines): a step that reads such a line emits it as a log line
\* and nothing else: no progress, no status, the downloaded file as it was,
\* and the run goes on to the next turn of the loop.
C24_UnexpectedLineOnlyLogged ==
    [][\A w \in Slots :
          (/\ Len(log_lines') = Len(log_lines) + 1
           /\ wk[w].pc = "dl_read"
           /\ \E text \in LineTexts :
                 Unmatched(text) /\ Last(log_lines') = Strip(text))
            => /\ wk'[w].progress = wk[w].progress
               /\ wk'[w].pcts = wk[w].pcts
               /\ wk'[w].downloaded_file = wk[w].downloaded_file
               /\ wk'[w].status = wk[w].status
               /\ wk'[w].pc = "dl_loop"
               /\ ~wk'[w].raised
               /\ wk'[w].dlProc = "running"]_vars

\* A download line without a number after a destination line: both are
\* logged, the path is that of the first and there is no progress.
C24_Witness ==
    /\ log_lines = <<Chars["[download] Destination: A.webm"], Chars["[download] % unknown"]>>
    /\ wk["w1"].downloaded_file = File(<<"A">>, "webm")
    /\ wk["w1"].progress = <<>>
    /\ wk["w1"].status = <<StartingStatus>>
    /\ wk["w1"].pc = "dl_loop"


\* C25 (as claimed; SpecButton): a job whose stop was requested after
\* yt-dlp had exited and before the job reported completion (while the file
\* is located, before or during the conversion, during tagging, cleanup or
\* the rename) has not emitted finished_success when it ends, and unless it
\* failed it ends on "Operation cancelled by user.".
C25_CancelAtAnyStage ==
    \A w \in Slots :
        (Ended(w) /\ wk[w].stop /\ wk[w].stopAt \in {"between", "converting"})
            => /\ ~wk[w].success
               /\ wk[w].status # <<>>
               /\ Last(wk[w].status) \in {CancelledStatus} \cup FailureStatuses


\* C26 (as claimed; FairButton): a worker whose stop was requested while
\* yt-dlp (or ffmpeg) was running calls terminate on that subprocess and
\* its run ends; and no run reports the cancellation without having called
\* terminate on the subprocess it was reading from.
C26_StopTerminatesSubprocess ==
    /\ \A w \in Slots :
          (wk[w].stop /\ wk[w].stopAt = "downloading")
              ~> (Ended(w) /\ "terminate_ytdlp" \in wk[w].fx)
    /\ \A w \in Slots :
          (wk[w].stop /\ wk[w].stopAt = "converting")
              ~> (Ended(w) /\ "terminate_ffmpeg" \in wk[w].fx)
    /\ [](\A w \in Slots :
            (wk[w].status # <<>> /\ Last(wk[w].status) = CancelledStatus)
                => IF wk[w].ffLaunches = 0
                   THEN "terminate_ytdlp" \in wk[w].fx
                   ELSE "terminate_ffmpeg" \in wk[w].fx)


\* C27 (as claimed; SpecWindow): whenever a DownloadWorker is running,
\* self.worker is that worker and Cancel is enabled, so cancel_current sets
\* the stop flag of the job that runs; and Cancel is enabled exactly when a
\* worker is running.
C27_CancelReachesRunningWorker ==
    /\ \A w \in Slots : Running(w) => (worker = w /\ cancel_enabled)
    /\ cancel_enabled <=> Active # {}


\* C28 (as claimed; SpecButton): the file a job has deleted as intermediate
\* or has renamed is the file yt-dlp wrote during that job, never one the
\* output directory held before, also when no destination was learned.
C28_OnlyOwnFileRemoved ==
    \A w \in Slots :
        (wk[w].fx \cap {"unlink", "move"} # {})
            => /\ wk[w].written # NoFile
               /\ wk[w].downloaded_file = wk[w].written


C30_CodecFitsResolution ==
    (/\ dropdowns.format = "MP4"
     /\ dropdowns.codec # "Auto (Best Available)"
     /\ dropdowns.quality # BestAvailable)
        => /\ dropdowns.quality \in DOMAIN ResolutionCodecMatrix
           /\ dropdowns.codec \in ResolutionCodecMatrix[dropdowns.quality]
           /\ dropdowns.codec \in DOMAIN CodecResolutionMatrix
           /\ dropdowns.quality \in DOMAIN CodecResolutionMatrix[dropdowns.codec]

\* AV1 with 2160p (4K), the quality list being that of AV1.
C30_Witness ==
    /\ dropdowns.format = "MP4"
    /\ dropdowns.codec = "AV1"
    /\ dropdowns.quality = Res2160
    /\ dropdowns.quality_items = <<BestAvailable, Res2160, Res1440, Res1080, Res720>>

====
